---- MODULE Spec2Model ----
(***************************************************************************)
(* Model of the Confluence RAG starter pack:                               *)
(*   - retrieve_docs            (my-confluence-agent/app/agent.py)         *)
(*   - process_data             (components/process_data.py)               *)
(*   - load_confluence_data     (components/confluence_loader.py)          *)
(* One behaviour is one invocation of one of the three entry points; Init  *)
(* draws the entry point and its inputs.  Python strings are TLA+ strings  *)
(* (Len, SubSeq and \o are used on them).                                   *)
(***************************************************************************)
EXTENDS FiniteSets, Integers, Sequences, TLC

VARIABLES
    prog,            \* entry point invoked in this behaviour
    pc,              \* position inside the entry point
    error,           \* class of the exception that left the entry point, or "none"
    \* ---- retrieve_docs
    query,           \* argument
    retrieved_docs,  \* local
    ranked_docs,     \* local
    result,          \* value returned to the caller (valid when pc = "returned")
    calls,           \* collaborator calls made so far, in order
    \* ---- process_data / load_confluence_data: inputs and environment
    confluence_space_key,
    confluence_page_ids,
    chunk_size,
    chunk_overlap,
    output_uri,      \* output_files.uri
    destination,     \* output_files.uri as the caller passed it
    space,           \* page ids the content source lists for the space, in its order
    site,            \* what GET of a page answers, per class of page id
    \* ---- process_data / load_confluence_data: locals and effects
    start,           \* get_all_page_ids_for_space: offset of the next request
    page_ids,
    responses,       \* `results` of every listing response received, in order
    net,             \* HTTP requests issued so far, in order
    idx,             \* position of the page-fetch loop in page_ids (1-based)
    rows,            \* fetch_confluence_pages: rows
    df,              \* the DataFrame
    chunk_info,
    tries,           \* calls of the VertexAIEmbeddings constructor so far
    attempts,        \* outcome of each of those calls, in order
    embed_calls,     \* calls of embedder.embed_documents so far
    embeddings,      \* what embed_documents returned
    jsonl_name,      \* jsonl_path.name
    files,           \* path -> content of every file written
    docs,            \* load_and_split_documents: docs
    doc_splits       \* load_confluence_data: doc_splits

retrieveVars == <<query, retrieved_docs, ranked_docs, result, calls>>

inputVars == <<confluence_space_key, confluence_page_ids, chunk_size, chunk_overlap,
               destination, space, site>>

ingestVars == <<output_uri, start, page_ids, responses, net, idx, rows, df,
                chunk_info, tries, attempts, embed_calls, embeddings, jsonl_name, files,
                docs, doc_splits>>

----------------------------------------------------------------------------
(* Bounds *)

MaxDocs == 2         \* longest list the retriever returns in the model
MaxSlashes == 2      \* most trailing "/" of a destination URI in the model

----------------------------------------------------------------------------
(* Sequence helpers *)

Range(s) == {s[i] : i \in 1..Len(s)}

SeqsUpTo(S, n) == UNION {[1..k -> S] : k \in 0..n}

NoDup(s) == \A i, j \in 1..Len(s) : i # j => s[i] # s[j]

\* s contains t as a contiguous substring (Python: t in s)
Contains(s, t) ==
    \E i \in 0..(Len(s) - Len(t)) : SubSeq(s, i + 1, i + Len(t)) = t

----------------------------------------------------------------------------
(* retrieve_docs : agent.py 61-109 *)

\* agent.py 83, 95: the marker of "nothing relevant"
NoDocsMarkerSameAsError == "RETRIEVAL_TOOL_ERROR"
NO_RELEVANT_DOCUMENTS_FOUND == "NO_RELEVANT_DOCUMENTS_FOUND"

\* agent.py 106: the marker of "retrieval broke"
ErrorMarkerSameAsNoDocs == "NO_RELEVANT_DOCUMENTS_FOUND"
RETRIEVAL_TOOL_ERROR == "RETRIEVAL_TOOL_ERROR"

Queries == {"onboarding", "vacation"}

\* page_content of the documents the vector store holds
DocContents == {"alpha", "beta", "gamma"}

\* exception classes a collaborator may raise (all derive from Exception)
ExceptionClasses == {"ConnectionError", "ValueError"}

Raise(cls) == [kind |-> "raise", cls |-> cls]
Return(v) == [kind |-> "return", value |-> v]

\* retriever.invoke(query): a list of at most MaxDocs distinct documents, or a raise
RetrieverOutcomes ==
    {Return(d) : d \in {s \in SeqsUpTo(DocContents, MaxDocs) : NoDup(s)}}
        \cup {Raise(c) : c \in ExceptionClasses}

\* compressor.compress_documents(documents, query): the documents re-ordered
\* and filtered (same or smaller cardinality), or a raise
CompressorOutcomes(documents) ==
    {Return(d) : d \in {s \in SeqsUpTo(Range(documents), Len(documents)) : NoDup(s)}}
        \cup {Raise(c) : c \in ExceptionClasses}

\* app.templates.format_docs: renders every document's content, in order,
\* into one context block
RECURSIVE FormatDocs(_)
FormatDocs(ds) ==
    IF ds = <<>> THEN "## Context provided:\n"
    ELSE FormatDocs(SubSeq(ds, 1, Len(ds) - 1))
            \o "<Document>\n" \o ds[Len(ds)] \o "\n</Document>\n"

\* format_docs.format(docs=...): the rendered block, or a raise
FormatterOutcomes(ds) ==
    {Return(FormatDocs(ds))} \cup {Raise(c) : c \in ExceptionClasses}

\* `except Exception` (agent.py 102): the classes the handler catches
HandlesOnlyValueError(cls) == cls = "ValueError"
Handles(cls) == cls \in ExceptionClasses

\* the list handed to the formatter (agent.py 99)
FormatterInputRetrieved(retrieved, ranked) == retrieved
FormatterInput(retrieved, ranked) == ranked

\* `if not retrieved_docs` (agent.py 81) / `if not ranked_docs` (agent.py 93)
IsEmptyNever(ds) == FALSE
IsEmpty(ds) == ds = <<>>

\* one collaborator call: who was called, with what, and how it ended
Call(fn, arg, out) == [fn |-> fn, arg |-> arg, out |-> out]

\* the except clause: either the marker is returned or the exception leaves
OnException(cls) ==
    IF Handles(cls)
    THEN /\ result' = RETRIEVAL_TOOL_ERROR
         /\ pc' = "returned"
         /\ error' = "none"
    ELSE /\ result' = result
         /\ pc' = "raised"
         /\ error' = cls

\* agent.py 73-83
RetrieveStep ==
    /\ prog = "retrieve_docs" /\ pc = "retrieve"
    /\ \E out \in RetrieverOutcomes :
        /\ calls' = Append(calls, Call("retriever", query, out))
        /\ IF out.kind = "raise"
           THEN OnException(out.cls) /\ UNCHANGED retrieved_docs
           ELSE /\ retrieved_docs' = out.value
                /\ error' = error
                /\ IF IsEmpty(out.value)
                   THEN result' = NO_RELEVANT_DOCUMENTS_FOUND /\ pc' = "returned"
                   ELSE result' = result /\ pc' = "compress"
    /\ UNCHANGED <<prog, query, ranked_docs, inputVars, ingestVars>>

\* agent.py 85-95
CompressStep ==
    /\ prog = "retrieve_docs" /\ pc = "compress"
    /\ \E out \in CompressorOutcomes(retrieved_docs) :
        /\ calls' = Append(calls, Call("compressor", retrieved_docs, out))
        /\ IF out.kind = "raise"
           THEN OnException(out.cls) /\ UNCHANGED ranked_docs
           ELSE /\ ranked_docs' = out.value
                /\ error' = error
                /\ IF IsEmpty(out.value)
                   THEN result' = NO_RELEVANT_DOCUMENTS_FOUND /\ pc' = "returned"
                   ELSE result' = result /\ pc' = "format"
    /\ UNCHANGED <<prog, query, retrieved_docs, inputVars, ingestVars>>

\* agent.py 98-109
FormatStep ==
    /\ prog = "retrieve_docs" /\ pc = "format"
    /\ LET arg == FormatterInput(retrieved_docs, ranked_docs) IN
        \E out \in FormatterOutcomes(arg) :
            /\ calls' = Append(calls, Call("formatter", arg, out))
            /\ IF out.kind = "raise"
               THEN OnException(out.cls)
               ELSE result' = out.value /\ pc' = "returned" /\ error' = error
    /\ UNCHANGED <<prog, query, retrieved_docs, ranked_docs, inputVars, ingestVars>>

----------------------------------------------------------------------------
(* Python string methods used by the ingestion components *)

CharAt(s, i) == SubSeq(s, i, i)

\* s.split(",")
RECURSIVE SplitComma(_)
SplitComma(s) ==
    IF \A i \in 1..Len(s) : CharAt(s, i) # ","
    THEN <<s>>
    ELSE LET i == CHOOSE k \in 1..Len(s) :
                    /\ CharAt(s, k) = ","
                    /\ \A j \in 1..(k - 1) : CharAt(s, j) # ","
         IN <<SubSeq(s, 1, i - 1)>> \o SplitComma(SubSeq(s, i + 1, Len(s)))

Whitespace == {" ", "\t", "\n"}

\* s.lstrip(), s.rstrip(), s.strip()
RECURSIVE LStrip(_)
LStrip(s) ==
    IF Len(s) > 0 /\ CharAt(s, 1) \in Whitespace
    THEN LStrip(SubSeq(s, 2, Len(s))) ELSE s

RECURSIVE RStrip(_)
RStrip(s) ==
    IF Len(s) > 0 /\ CharAt(s, Len(s)) \in Whitespace
    THEN RStrip(SubSeq(s, 1, Len(s) - 1)) ELSE s

Strip(s) == RStrip(LStrip(s))

\* removal of one trailing "/" only
RStripOneSlash(s) ==
    IF Len(s) > 0 /\ CharAt(s, Len(s)) = "/" THEN SubSeq(s, 1, Len(s) - 1) ELSE s

\* s.rstrip("/")
RECURSIVE RStripSlash(_)
RStripSlash(s) ==
    IF Len(s) > 0 /\ CharAt(s, Len(s)) = "/"
    THEN RStripSlash(SubSeq(s, 1, Len(s) - 1)) ELSE s

\* s.endswith(suffix)
EndsWith(s, suffix) ==
    /\ Len(s) >= Len(suffix)
    /\ SubSeq(s, Len(s) - Len(suffix) + 1, Len(s)) = suffix

\* [f(x) for x in s if keep(x)] helpers
RECURSIVE SelectNonEmpty(_)
SelectNonEmpty(s) ==
    IF s = <<>> THEN <<>>
    ELSE (IF Len(Head(s)) > 0 THEN <<Head(s)>> ELSE <<>>) \o SelectNonEmpty(Tail(s))

RECURSIVE Flatten(_)
Flatten(ss) == IF ss = <<>> THEN <<>> ELSE Head(ss) \o Flatten(Tail(ss))

----------------------------------------------------------------------------
(* The content source and the text splitter *)

\* a page id is served according to the class of its last character
SiteClasses == {0, 1}
SiteClass(pid) ==
    IF Len(pid) > 0 /\ CharAt(pid, Len(pid)) \in {"1", "3", "5", "7", "9"}
    THEN 1 ELSE 0

\* plain text of a page body (after BeautifulSoup.get_text)
Texts == {"", "ab", "abcdefg"}

\* GET /wiki/rest/api/content/{pid}: a body, an HTTP error status
\* (raise_for_status) or a JSON body without body.storage.value (KeyError)
PageOutcomes == {Return(t) : t \in Texts} \cup {Raise("HTTPError"), Raise("KeyError")}

TitleOf(pid) == "Title " \o pid

\* RecursiveCharacterTextSplitter(chunk_size, chunk_overlap).split_text(text):
\* pieces of at most chunk_size characters, each starting chunk_size -
\* chunk_overlap characters after the previous one; no piece for empty text
RECURSIVE SplitFrom(_, _, _, _)
SplitFrom(text, from, size, overlap) ==
    IF from > Len(text) THEN <<>>
    ELSE IF from + size - 1 >= Len(text) THEN <<SubSeq(text, from, Len(text))>>
    ELSE <<SubSeq(text, from, from + size - 1)>>
            \o SplitFrom(text, from + size - overlap, size, overlap)

SplitText(text, size, overlap) == SplitFrom(text, 1, size, overlap)

----------------------------------------------------------------------------
(* process_data : process_data.py 29-232 *)

limit == 50          \* process_data.py 75
max_tries == 10      \* process_data.py 181

OUTPUT_FOLDER == "output_files"
OutputFilesPath == "/gcs/run/out"      \* output_files.path

\* uuid.uuid4().hex and datetime.utcnow().isoformat() of the run
Uuids == {"0a", "1b"}
Timestamps == {"2025-04-30T00:00:00", "2025-05-01T12:30:00"}

NaN == [nan |-> TRUE]

\* process_data.py 122-131: which branch of the parameter handling is taken
SelectionBranchListsWhenEmpty(space_key, ids) ==
    IF space_key # "" \/ ids = "" THEN "space" ELSE "ids"
\* a handling that prefers the explicit list when both are given
SelectionBranchIdsFirst(space_key, ids) ==
    IF ids # "" THEN "ids"
    ELSE IF space_key # "" THEN "space"
    ELSE "error"

SelectionBranch(space_key, ids) ==
    IF space_key # "" THEN "space"
    ELSE IF ids # "" THEN "ids"
    ELSE "error"

\* process_data.py 129
ParseIds(ids) ==
    LET parts == SplitComma(ids)
    IN SelectNonEmpty([i \in 1..Len(parts) |-> Strip(parts[i])])

\* process_data.py 122-131
SelectPages ==
    /\ prog = "process_data" /\ pc = "select"
    /\ LET branch == SelectionBranch(confluence_space_key, confluence_page_ids) IN
        CASE branch = "space" ->
                /\ pc' = "list" /\ start' = 0 /\ page_ids' = <<>>
                /\ error' = error
          [] branch = "ids" ->
                /\ pc' = "fetch" /\ page_ids' = ParseIds(confluence_page_ids)
                /\ UNCHANGED <<start, error>>
          [] OTHER ->
                /\ pc' = "raised" /\ error' = "ValueError"
                /\ UNCHANGED <<start, page_ids>>
    /\ UNCHANGED <<prog, retrieveVars, inputVars, output_uri, responses, net, idx,
                   rows, df, chunk_info, tries, embed_calls, jsonl_name, files,
                   docs, doc_splits, attempts, embeddings>>

\* GET /wiki/rest/api/content?spaceKey=..&limit=..&start=..: the slice
\* results[start : start + limit] of the space, or an HTTP error status
ListingOutcomes(from, lim) ==
    {Return(SubSeq(space, from + 1, IF from + lim < Len(space) THEN from + lim ELSE Len(space))),
     Raise("HTTPError")}

\* process_data.py 89-94: the loop ends after this response
LastResponseAtMostLimit(results) == results = <<>> \/ Len(results) <= limit
LastResponse(results) == results = <<>> \/ Len(results) < limit

\* an offset that advances one short of the page size
NextStartOverlapping(from) == from + limit - 1

\* process_data.py 95
NextStart(from) == from + limit

\* process_data.py 86: response.raise_for_status() leaves process_data
ListingFailureEndsListing(cls) == pc' = "fetch" /\ error' = error
ListingFailure(cls) == pc' = "raised" /\ error' = cls

\* process_data.py 78-97: one iteration of the discovery loop
ListRequest ==
    /\ prog = "process_data" /\ pc = "list"
    /\ net' = Append(net, [kind |-> "list", start |-> start, limit |-> limit])
    /\ \E out \in ListingOutcomes(start, limit) :
        IF out.kind = "raise"
        THEN /\ ListingFailure(out.cls)
             /\ UNCHANGED <<responses, page_ids, start>>
        ELSE /\ responses' = Append(responses, out.value)
             /\ page_ids' = page_ids \o out.value
             /\ error' = error
             /\ IF LastResponse(out.value)
                THEN pc' = "fetch" /\ start' = start
                ELSE pc' = "list" /\ start' = NextStart(start)
    /\ UNCHANGED <<prog, retrieveVars, inputVars, output_uri, idx, rows, df,
                   chunk_info, tries, embed_calls, jsonl_name, files, docs, doc_splits, attempts, embeddings>>

\* process_data.py 102-118: one iteration of the fetch loop; a failing
\* request (108) or a body without body.storage.value (109) raises
FetchPage ==
    /\ prog = "process_data" /\ pc = "fetch" /\ idx <= Len(page_ids)
    /\ LET pid == page_ids[idx]
           out == site[SiteClass(pid)]
       IN /\ net' = Append(net, [kind |-> "page", id |-> pid])
          /\ IF out.kind = "raise"
             THEN /\ pc' = "raised" /\ error' = out.cls
                  /\ UNCHANGED <<rows, idx>>
             ELSE /\ rows' = Append(rows, [id |-> pid, title |-> TitleOf(pid),
                                           text |-> out.value])
                  /\ idx' = idx + 1
                  /\ UNCHANGED <<pc, error>>
    /\ UNCHANGED <<prog, retrieveVars, inputVars, output_uri, start, page_ids,
                   responses, df, chunk_info, tries, embed_calls, jsonl_name, files,
                   docs, doc_splits, attempts, embeddings>>

\* process_data.py 119, 138-139: pd.DataFrame(rows), rename, column selection;
\* a frame built from no rows has no columns and the selection raises KeyError
BuildFrame ==
    /\ prog = "process_data" /\ pc = "fetch" /\ idx > Len(page_ids)
    /\ IF rows = <<>>
       THEN pc' = "raised" /\ error' = "KeyError" /\ df' = df
       ELSE /\ df' = [i \in 1..Len(rows) |->
                        [id |-> rows[i].id, title |-> rows[i].title,
                         full_text_md |-> rows[i].text]]
            /\ pc' = "split" /\ error' = error
    /\ UNCHANGED <<prog, retrieveVars, inputVars, output_uri, start, page_ids,
                   responses, net, idx, rows, chunk_info, tries, embed_calls,
                   jsonl_name, files, docs, doc_splits, attempts, embeddings>>

\* process_data.py 144-152
SplitStep ==
    /\ prog = "process_data" /\ pc = "split"
    /\ df' = [i \in 1..Len(df) |->
                [id |-> df[i].id, title |-> df[i].title,
                 full_text_md |-> df[i].full_text_md,
                 text_chunk |-> SplitText(df[i].full_text_md, chunk_size, chunk_overlap)]]
    /\ pc' = "chunk_ids"
    /\ UNCHANGED <<prog, error, retrieveVars, inputVars, output_uri, start, page_ids,
                   responses, net, idx, rows, chunk_info, tries, embed_calls,
                   jsonl_name, files, docs, doc_splits, attempts, embeddings>>

\* process_data.py 158-162
ChunkInfo(frame) ==
    Flatten([r \in 1..Len(frame) |->
                [i \in 1..Len(frame[r].text_chunk) |-> <<frame[r].id, i - 1>>]])

\* DataFrame.explode("text_chunk").reset_index(drop=True): one row per list
\* element; a row whose list is empty stays as one row holding NaN
Explode(frame) ==
    Flatten([r \in 1..Len(frame) |->
                IF frame[r].text_chunk = <<>>
                THEN <<[id |-> frame[r].id, title |-> frame[r].title,
                        full_text_md |-> frame[r].full_text_md, text_chunk |-> NaN]>>
                ELSE [i \in 1..Len(frame[r].text_chunk) |->
                        [id |-> frame[r].id, title |-> frame[r].title,
                         full_text_md |-> frame[r].full_text_md,
                         text_chunk |-> frame[r].text_chunk[i]]]])

\* process_data.py 168: f"{page_id}__{chunk_num}"
ChunkId(page_id, chunk_num) == page_id \o "__" \o ToString(chunk_num)

\* process_data.py 158-168: assigning a column of another length than the
\* frame raises ValueError
ChunkIdStep ==
    /\ prog = "process_data" /\ pc = "chunk_ids"
    /\ chunk_info' = ChunkInfo(df)
    /\ LET exploded == Explode(df)
           info == ChunkInfo(df)
       IN IF Len(info) # Len(exploded)
          THEN pc' = "raised" /\ error' = "ValueError" /\ df' = exploded
          ELSE /\ df' = [i \in 1..Len(exploded) |->
                            [id |-> exploded[i].id, title |-> exploded[i].title,
                             full_text_md |-> exploded[i].full_text_md,
                             text_chunk |-> exploded[i].text_chunk,
                             chunk_id |-> ChunkId(info[i][1], info[i][2])]]
               /\ pc' = "create_embedder" /\ error' = error
    /\ UNCHANGED <<prog, retrieveVars, inputVars, output_uri, start, page_ids,
                   responses, net, idx, rows, tries, embed_calls, jsonl_name,
                   files, docs, doc_splits, attempts, embeddings>>

\* outcome of one call of the VertexAIEmbeddings constructor
EmbedderOutcomes == {Return("embedder"), Raise("InvalidArgument"), Raise("PermissionDenied")}

\* backoff.on_exception(backoff.expo, InvalidArgument, max_tries=10):
\* the exception classes that are retried, and when the decorator gives up
RetryableAlways(cls) == TRUE

Retryable(cls) == cls = "InvalidArgument"

GivesUpOneLater(n) == n > max_tries

GivesUp(n) == n >= max_tries

\* process_data.py 180-190: one call of the constructor under the decorator
CreateEmbedderAttempt ==
    /\ prog = "process_data" /\ pc = "create_embedder"
    /\ tries' = tries + 1
    /\ \E out \in EmbedderOutcomes :
        /\ attempts' = Append(attempts, out)
        /\ IF out.kind = "return"
           THEN pc' = "embed" /\ error' = error
           ELSE IF Retryable(out.cls) /\ ~GivesUp(tries + 1)
                THEN pc' = "create_embedder" /\ error' = error
                ELSE pc' = "raised" /\ error' = out.cls
    /\ UNCHANGED <<prog, retrieveVars, inputVars, output_uri, start, page_ids,
                   responses, net, idx, rows, df, chunk_info, embed_calls,
                   jsonl_name, files, docs, doc_splits, embeddings>>

\* the vector the embedding model gives a text
Embed(text) == <<Len(text), 7>>

\* embedder.embed_documents(texts): one vector per text, a list that is one
\* vector short, or a raise
EmbedOutcomes(texts) ==
    {Return([i \in 1..Len(texts) |-> Embed(texts[i])]),
     Return([i \in 1..(Len(texts) - 1) |-> Embed(texts[i])]),
     Raise("InvalidArgument"), Raise("ServiceUnavailable")}

\* what an exception raised by embed_documents does to the run
EmbedFailureSkipsColumn(cls) == pc' = "export" /\ error' = error

EmbedFailure(cls) == pc' = "raised" /\ error' = cls

\* df["embedding"] = embeddings: the value placed in row i (1-based)
EmbeddingOfNextRow(vectors, i) == vectors[IF i < Len(vectors) THEN i + 1 ELSE 1]

EmbeddingOfRow(vectors, i) == vectors[i]

\* process_data.py 192-194: the call is made once, outside the decorator;
\* assigning a column of another length than the frame raises ValueError
EmbedStep ==
    /\ prog = "process_data" /\ pc = "embed"
    /\ embed_calls' = embed_calls + 1
    /\ \E out \in EmbedOutcomes([i \in 1..Len(df) |-> df[i].text_chunk]) :
        IF out.kind = "raise"
        THEN EmbedFailure(out.cls) /\ df' = df /\ embeddings' = embeddings
        ELSE /\ embeddings' = out.value
             /\ IF Len(out.value) # Len(df)
                THEN pc' = "raised" /\ error' = "ValueError" /\ df' = df
                ELSE \E now \in Timestamps :
                        /\ df' = [i \in 1..Len(df) |->
                                    [id |-> df[i].id, title |-> df[i].title,
                                     full_text_md |-> df[i].full_text_md,
                                     text_chunk |-> df[i].text_chunk,
                                     chunk_id |-> df[i].chunk_id,
                                     embedding |-> EmbeddingOfRow(out.value, i),
                                     creation_timestamp |-> now]]
                        /\ pc' = "export" /\ error' = error
    /\ UNCHANGED <<prog, retrieveVars, inputVars, output_uri, start, page_ids,
                   responses, net, idx, rows, chunk_info, tries, jsonl_name,
                   files, docs, doc_splits, attempts>>

\* a record whose id also carries the time of the run
ExportRecordStamped(row) ==
    [id |-> row.chunk_id \o "@" \o row.creation_timestamp,
     json_data |-> [embedding |-> row.embedding,
                    content |-> row.text_chunk,
                    source_title |-> row.title,
                    source_page_id |-> row.id,
                    creation_timestamp |-> row.creation_timestamp]]

\* process_data.py 208-217: the exported record of a row
ExportRecord(row) ==
    [id |-> row.chunk_id,
     json_data |-> [embedding |-> row.embedding,
                    content |-> row.text_chunk,
                    source_title |-> row.title,
                    source_page_id |-> row.id,
                    creation_timestamp |-> row.creation_timestamp]]

JsonlPath(name) == OutputFilesPath \o "/" \o name
FileListPath == OutputFilesPath \o "/file_list.txt"

\* process_data.py 201-218
ExportStep ==
    /\ prog = "process_data" /\ pc = "export"
    /\ \E u \in Uuids :
        LET name == "confluence_" \o u \o ".jsonl" IN
        /\ jsonl_name' = name
        /\ files' = (JsonlPath(name) :> [i \in 1..Len(df) |-> ExportRecord(df[i])]) @@ files
    /\ pc' = "manifest"
    /\ UNCHANGED <<prog, error, retrieveVars, inputVars, output_uri, start, page_ids,
                   responses, net, idx, rows, df, chunk_info, tries, embed_calls,
                   docs, doc_splits, attempts, embeddings>>

\* process_data.py 220-223
ManifestStep ==
    /\ prog = "process_data" /\ pc = "manifest"
    /\ files' = (FileListPath :> JsonlPath(jsonl_name)) @@ files
    /\ pc' = "set_uri"
    /\ UNCHANGED <<prog, error, retrieveVars, inputVars, output_uri, start, page_ids,
                   responses, net, idx, rows, df, chunk_info, tries, embed_calls,
                   jsonl_name, docs, doc_splits, attempts, embeddings>>

\* process_data.py 227-230
ResolveUri(uri, name) ==
    IF EndsWith(RStripSlash(uri), OUTPUT_FOLDER)
    THEN RStripSlash(uri) \o "/" \o name
    ELSE RStripSlash(uri) \o "/output_files/" \o name

\* process_data.py 225-232
SetUriStep ==
    /\ prog = "process_data" /\ pc = "set_uri"
    /\ output_uri' = ResolveUri(output_uri, jsonl_name)
    /\ pc' = "done"
    /\ UNCHANGED <<prog, error, retrieveVars, inputVars, start, page_ids,
                   responses, net, idx, rows, df, chunk_info, tries, embed_calls,
                   jsonl_name, files, docs, doc_splits, attempts, embeddings>>

----------------------------------------------------------------------------
(* load_confluence_data : confluence_loader.py 28-97 *)

\* confluence_loader.py 58-65: one iteration of the loading loop; any
\* exception of fetch_page_content is logged and the page is skipped
LoadPage ==
    /\ prog = "load_confluence_data" /\ pc = "load" /\ idx <= Len(page_ids)
    /\ LET pid == page_ids[idx]
           out == site[SiteClass(pid)]
       IN /\ net' = Append(net, [kind |-> "page", id |-> pid])
          /\ docs' = IF out.kind = "raise" THEN docs
                     ELSE Append(docs, [page_content |-> out.value,
                                        metadata |-> [page_id |-> pid]])
          /\ idx' = idx + 1
    /\ UNCHANGED <<prog, pc, error, retrieveVars, inputVars, output_uri, start,
                   page_ids, responses, rows, df, chunk_info, tries, embed_calls,
                   jsonl_name, files, doc_splits, attempts, embeddings>>

\* splitter.split_documents(docs): every piece of every document, in order,
\* each carrying its document's metadata
SplitDocuments(ds, size, overlap) ==
    Flatten([d \in 1..Len(ds) |->
                LET pieces == SplitText(ds[d].page_content, size, overlap)
                IN [i \in 1..Len(pieces) |->
                        [page_content |-> pieces[i], metadata |-> ds[d].metadata]]])

\* confluence_loader.py 67-79
SplitDocsStep ==
    /\ prog = "load_confluence_data" /\ pc = "load" /\ idx > Len(page_ids)
    /\ doc_splits' = SplitDocuments(docs, chunk_size, chunk_overlap)
    /\ pc' = "write"
    /\ UNCHANGED <<prog, error, retrieveVars, inputVars, output_uri, start,
                   page_ids, responses, net, idx, rows, df, chunk_info, tries,
                   embed_calls, jsonl_name, files, docs, attempts, embeddings>>

\* confluence_loader.py 84-89: the exported record of a split
LoaderRecord(doc) ==
    [id |-> doc.metadata.page_id, content |-> doc.page_content,
     metadata |-> doc.metadata]

\* confluence_loader.py 81-97
WriteOutput ==
    /\ prog = "load_confluence_data" /\ pc = "write"
    /\ output_uri' = output_uri \o "*.jsonl"
    /\ files' = (output_uri \o "*.jsonl" :>
                    [i \in 1..Len(doc_splits) |-> LoaderRecord(doc_splits[i])]) @@ files
    /\ pc' = "done"
    /\ UNCHANGED <<prog, error, retrieveVars, inputVars, start, page_ids,
                   responses, net, idx, rows, df, chunk_info, tries, embed_calls,
                   jsonl_name, docs, doc_splits, attempts, embeddings>>

----------------------------------------------------------------------------
(* Inputs *)

MaxSpace == 53       \* most pages a space holds in a whole run of process_data
MaxListed == 103     \* most pages a space holds when discovery alone is run

PageId(i) == ToString(100 + i)

SpaceOf(m) == [i \in 1..m |-> PageId(i)]

\* the same listing with its last entry repeating the first identifier
WithRepeat(s) == [s EXCEPT ![Len(s)] = s[1]]

\* sizes at and just after the multiples of the discovery page size
SpaceSizes == {m \in 0..MaxSpace : m % limit \in {0, 3}}

Spaces ==
    {SpaceOf(m) : m \in SpaceSizes}
        \cup {WithRepeat(SpaceOf(m)) : m \in {k \in SpaceSizes : k >= 2}}

\* every size up to MaxListed, with and without a repeated identifier
ListedSpaces ==
    {SpaceOf(m) : m \in 0..MaxListed}
        \cup {WithRepeat(SpaceOf(m)) : m \in 2..MaxListed}

IdStrings == {"", "101", "101,102", " 101 , ,102", "102,101,102", ","}

\* (confluence_space_key, confluence_page_ids)
Selections ==
    {<<"", ids>> : ids \in IdStrings} \cup {<<"BE", ids>> : ids \in {"", "101,102"}}

\* (chunk_size, chunk_overlap), chunk_overlap < chunk_size
ChunkParams == {<<4, 1>>, <<7, 2>>}

OutputUris == {"gs://b/run/", "gs://b/output_files"}

PageIdLists == {<<>>, <<"101">>, <<"101", "102">>, <<"102", "101", "102">>}

IngestLocalsInit ==
    /\ start = 0 /\ page_ids = <<>> /\ responses = <<>> /\ net = <<>>
    /\ idx = 1 /\ rows = <<>> /\ df = <<>> /\ chunk_info = <<>>
    /\ tries = 0 /\ attempts = <<>> /\ embed_calls = 0 /\ embeddings = <<>>
    /\ jsonl_name = "" /\ files = <<>>
    /\ docs = <<>> /\ doc_splits = <<>>

IngestIdle ==
    /\ confluence_space_key = "" /\ confluence_page_ids = ""
    /\ chunk_size = 0 /\ chunk_overlap = 0 /\ output_uri = "" /\ destination = ""
    /\ space = <<>> /\ site = <<>>
    /\ IngestLocalsInit

RetrieveIdle ==
    /\ query = "" /\ retrieved_docs = <<>> /\ ranked_docs = <<>>
    /\ result = "" /\ calls = <<>>

InitRetrieve ==
    /\ prog = "retrieve_docs" /\ pc = "retrieve" /\ error = "none"
    /\ query \in Queries
    /\ retrieved_docs = <<>> /\ ranked_docs = <<>>
    /\ result = "" /\ calls = <<>>
    /\ IngestIdle

InitProcessData ==
    /\ prog = "process_data" /\ pc = "select" /\ error = "none"
    /\ \E sel \in Selections :
        /\ confluence_space_key = sel[1]
        /\ confluence_page_ids = sel[2]
        /\ space \in (IF sel[1] = "" THEN {<<>>} ELSE Spaces)
    /\ \E cp \in ChunkParams : chunk_size = cp[1] /\ chunk_overlap = cp[2]
    /\ output_uri \in OutputUris /\ destination = output_uri
    /\ site \in [SiteClasses -> PageOutcomes]
    /\ IngestLocalsInit
    /\ RetrieveIdle

\* process_data in space-key mode, up to the return of
\* get_all_page_ids_for_space
InitDiscovery ==
    /\ prog = "process_data" /\ pc = "select" /\ error = "none"
    /\ confluence_space_key = "BE"
    /\ confluence_page_ids \in {"", "101,102"}
    /\ space \in ListedSpaces
    /\ chunk_size = 4 /\ chunk_overlap = 1
    /\ output_uri \in OutputUris /\ destination = output_uri
    /\ site = [c \in SiteClasses |-> Return("ab")]
    /\ IngestLocalsInit
    /\ RetrieveIdle

RECURSIVE Slashes(_)
Slashes(n) == IF n = 0 THEN "" ELSE "/" \o Slashes(n - 1)

\* destinations whose last segment is, contains, extends or is not the
\* output folder name
UriBases ==
    {"gs://b/run", "gs://b/output_files", "gs://b/output_files/sub",
     "gs://b/my_output_files", "gs://b//output_files", "gs://b/output_file",
     "output_files", ""}

Destinations == {b \o Slashes(n) : b \in UriBases, n \in 0..MaxSlashes}

\* process_data over one page with text, for every destination URI
InitUri ==
    /\ prog = "process_data" /\ pc = "select" /\ error = "none"
    /\ confluence_space_key = "" /\ confluence_page_ids = "101"
    /\ space = <<>>
    /\ chunk_size = 4 /\ chunk_overlap = 1
    /\ output_uri \in Destinations /\ destination = output_uri
    /\ site = [c \in SiteClasses |-> Return("ab")]
    /\ IngestLocalsInit
    /\ RetrieveIdle

InitLoader ==
    /\ prog = "load_confluence_data" /\ pc = "load" /\ error = "none"
    /\ confluence_space_key = "" /\ confluence_page_ids = ""
    /\ space = <<>>
    /\ \E cp \in ChunkParams : chunk_size = cp[1] /\ chunk_overlap = cp[2]
    /\ output_uri \in OutputUris /\ destination = output_uri
    /\ site \in [SiteClasses -> PageOutcomes]
    /\ start = 0 /\ page_ids \in PageIdLists /\ responses = <<>> /\ net = <<>>
    /\ idx = 1 /\ rows = <<>> /\ df = <<>> /\ chunk_info = <<>>
    /\ tries = 0 /\ attempts = <<>> /\ embed_calls = 0 /\ embeddings = <<>>
    /\ jsonl_name = "" /\ files = <<>>
    /\ docs = <<>> /\ doc_splits = <<>>
    /\ RetrieveIdle

----------------------------------------------------------------------------
vars == <<prog, pc, error, retrieveVars, inputVars, ingestVars>>

Init == InitRetrieve \/ InitProcessData \/ InitLoader

Next ==
    \/ RetrieveStep
    \/ CompressStep
    \/ FormatStep
    \/ SelectPages
    \/ ListRequest
    \/ FetchPage
    \/ BuildFrame
    \/ SplitStep
    \/ ChunkIdStep
    \/ CreateEmbedderAttempt
    \/ EmbedStep
    \/ ExportStep
    \/ ManifestStep
    \/ SetUriStep
    \/ LoadPage
    \/ SplitDocsStep
    \/ WriteOutput

Spec == Init /\ [][Next]_vars

\* page discovery alone, over spaces of every size up to MaxListed
NextDiscovery ==
    \/ SelectPages
    \/ ListRequest

SpecDiscovery == InitDiscovery /\ [][NextDiscovery]_vars

\* process_data in page-id mode, over every destination URI
NextUri ==
    \/ SelectPages
    \/ FetchPage
    \/ BuildFrame
    \/ SplitStep
    \/ ChunkIdStep
    \/ CreateEmbedderAttempt
    \/ EmbedStep
    \/ ExportStep
    \/ ManifestStep
    \/ SetUriStep

SpecUri == InitUri /\ [][NextUri]_vars

----------------------------------------------------------------------------
(* Properties of retrieve_docs *)

IsRetrieve == prog = "retrieve_docs"

Returned == IsRetrieve /\ pc = "returned"

LastCall == calls[Len(calls)]

SomeCallRaised == \E i \in 1..Len(calls) : calls[i].out.kind = "raise"

\* C1: an invocation of retrieve_docs never raises to its caller, whatever the
\* retriever, compressor and formatter do, and what it returns is the
\* formatted context, NO_RELEVANT_DOCUMENTS_FOUND or RETRIEVAL_TOOL_ERROR.
C1_NeverRaisesThreeOutcomes ==
    IsRetrieve =>
        /\ pc # "raised"
        /\ error = "none"
        /\ pc = "returned" =>
            \/ result = "NO_RELEVANT_DOCUMENTS_FOUND"
            \/ result = "RETRIEVAL_TOOL_ERROR"
            \/ /\ LastCall.fn = "formatter"
               /\ LastCall.out.kind = "return"
               /\ result = LastCall.out.value

\* C1 witness: the formatter raised and the invocation still returned
C1_Witness ==
    /\ Returned
    /\ Len(calls) = 3
    /\ LastCall.fn = "formatter"
    /\ LastCall.out.kind = "raise"
    /\ LastCall.out.cls = "ConnectionError"

RetrieverReturnedNone ==
    Len(calls) >= 1 /\ calls[1].out.kind = "return" /\ calls[1].out.value = <<>>

CompressorReturnedNone ==
    /\ Len(calls) >= 2
    /\ calls[1].out.kind = "return" /\ calls[1].out.value # <<>>
    /\ calls[2].out.kind = "return" /\ calls[2].out.value = <<>>

\* C2: when the retriever returns no document, or returns some and the
\* compressor then returns none, and neither raises, retrieve_docs returns
\* NO_RELEVANT_DOCUMENTS_FOUND and not the error marker.
C2_EmptyGivesNoDocsMarker ==
    (IsRetrieve /\ (RetrieverReturnedNone \/ CompressorReturnedNone)) =>
        /\ pc = "returned"
        /\ result = "NO_RELEVANT_DOCUMENTS_FOUND"
        /\ result # "RETRIEVAL_TOOL_ERROR"

\* C2 witness: the compressor filtered every retrieved document away
C2_Witness ==
    /\ Returned
    /\ CompressorReturnedNone
    /\ Len(calls[1].out.value) = 2

\* C3: retrieve_docs returns RETRIEVAL_TOOL_ERROR when a step that was called
\* raised (retriever, compressor on a non-empty retrieval, formatter on a
\* non-empty compressed list), and in no other case.
C3_ErrorMarkerIffStepRaised ==
    IsRetrieve =>
        /\ SomeCallRaised => (pc = "returned" /\ result = "RETRIEVAL_TOOL_ERROR")
        /\ (pc = "returned" /\ result = "RETRIEVAL_TOOL_ERROR") =>
                /\ LastCall.out.kind = "raise"
                /\ LastCall.fn # "retriever" => LastCall.arg # <<>>

\* C3 witness: the compressor raised on a non-empty retrieval result
C3_Witness ==
    /\ Returned
    /\ Len(calls) = 2
    /\ calls[1].out.kind = "return" /\ calls[1].out.value # <<>>
    /\ calls[2].fn = "compressor" /\ calls[2].out.kind = "raise"
    /\ result = "RETRIEVAL_TOOL_ERROR"

AllThreeReturned ==
    /\ Len(calls) = 3
    /\ \A i \in 1..3 : calls[i].out.kind = "return"

\* C4: when retriever and compressor return non-empty lists and nothing
\* raises, retrieve_docs returns the formatter's rendering of the
\* compressor's output list, which contains every surviving document's content.
C4_FormatsCompressedDocs ==
    (IsRetrieve /\ AllThreeReturned) =>
        /\ pc = "returned"
        /\ calls[3].fn = "formatter"
        /\ calls[3].arg = calls[2].out.value
        /\ result = calls[3].out.value
        /\ result = FormatDocs(calls[2].out.value)
        /\ \A i \in 1..Len(calls[2].out.value) :
                Contains(result, calls[2].out.value[i])

\* C4 witness: the compressor dropped one of two documents and the context
\* was returned
C4_Witness ==
    /\ Returned
    /\ AllThreeReturned
    /\ Len(calls[1].out.value) = 2
    /\ Len(calls[2].out.value) = 1
    /\ Contains(result, calls[2].out.value[1])

\* C5: the collaborators are called in the order retriever, compressor,
\* formatter; the compressor is called only after the retriever returned a
\* non-empty list (and with that list), the formatter only after the
\* compressor returned a non-empty list.
C5_StepOrderAndShortCircuit ==
    IsRetrieve =>
        /\ Len(calls) <= 3
        /\ \A i \in 1..Len(calls) :
                calls[i].fn = <<"retriever", "compressor", "formatter">>[i]
        /\ \A i \in 2..Len(calls) :
                /\ calls[i - 1].out.kind = "return"
                /\ calls[i - 1].out.value # <<>>
        /\ Len(calls) >= 2 => calls[2].arg = calls[1].out.value

\* C5 witness: the retriever returned nothing and the invocation ended with
\* the retriever as the only collaborator called
C5_Witness ==
    /\ Returned
    /\ Len(calls) = 1
    /\ calls[1].fn = "retriever"
    /\ calls[1].out.kind = "return" /\ calls[1].out.value = <<>>

----------------------------------------------------------------------------
(* Properties of the ingestion components *)

IsProcessData == prog = "process_data"
IsLoader == prog = "load_confluence_data"
IsIngest == IsProcessData \/ IsLoader

ListRequests == {k \in 1..Len(net) : net[k].kind = "list"}
PageRequests == {k \in 1..Len(net) : net[k].kind = "page"}

\* the page requests that were answered by an error
FailedPageRequests ==
    {k \in PageRequests : site[SiteClass(net[k].id)].kind = "raise"}

\* a listing request was answered by an error
ListingFailed == IsProcessData /\ Cardinality(ListRequests) > Len(responses)

\* discovery returned its list to process_data
ListingReturned ==
    /\ IsProcessData /\ confluence_space_key # ""
    /\ pc \notin {"select", "list"}
    /\ ~ListingFailed

\* the records of the export file written by the run, in file order
EmittedRecords ==
    IF IsProcessData /\ jsonl_name # "" THEN files[JsonlPath(jsonl_name)]
    ELSE IF IsLoader /\ pc = "done" THEN files[output_uri]
    ELSE <<>>

RecordPage(rec) ==
    IF IsProcessData THEN rec.json_data.source_page_id ELSE rec.metadata.page_id

\* the pages of the input list whose fetch answers a non-empty text
PagesWithText ==
    {page_ids[i] : i \in {k \in 1..Len(page_ids) :
        /\ site[SiteClass(page_ids[k])].kind = "return"
        /\ site[SiteClass(page_ids[k])].value # ""}}

NothingFetchedEmbeddedOrWritten ==
    /\ PageRequests = {}
    /\ rows = <<>>
    /\ tries = 0
    /\ embed_calls = 0
    /\ DOMAIN files = {}
    /\ output_uri \in OutputUris

\* C6: when the fetch of one page raises, the ingestion run is not aborted by
\* it: the page is skipped, the remaining pages are fetched, and the records
\* exported are those of the other pages.
C6_PartialFailureTolerance ==
    (IsIngest /\ Len(page_ids) >= 2 /\ Cardinality(FailedPageRequests) = 1) =>
        /\ ~(pc = "raised" /\ idx <= Len(page_ids))
        /\ pc = "done" =>
            {RecordPage(EmittedRecords[i]) : i \in 1..Len(EmittedRecords)}
                = PagesWithText

\* C7: in space-key mode a failed listing request, the first or a later one,
\* aborts the run with that error: no page is fetched, no embedding call is
\* made, no export file or manifest is written.
C7_ListingFailureAborts ==
    ListingFailed =>
        /\ pc = "raised"
        /\ error = "HTTPError"
        /\ NothingFetchedEmbeddedOrWritten

\* C7 witness: the second listing request failed after the first had
\* returned a full page of identifiers
C7_Witness ==
    /\ ListingFailed
    /\ Len(responses) = 1
    /\ Len(page_ids) = 50
    /\ Cardinality(ListRequests) = 2
    /\ pc = "raised"

\* C8: process_data called with neither a space key nor page identifiers
\* fails with ValueError before any request, embedding call or file write.
C8_NoSelectionIsConfigError ==
    (IsProcessData /\ confluence_space_key = "" /\ confluence_page_ids = "") =>
        /\ net = <<>>
        /\ NothingFetchedEmbeddedOrWritten
        /\ pc # "select" => (pc = "raised" /\ error = "ValueError")

\* C8 witness: the run with both parameters empty has ended
C8_Witness ==
    /\ IsProcessData
    /\ confluence_space_key = "" /\ confluence_page_ids = ""
    /\ pc = "raised"

\* C9: discovery requests 50 results at offsets 0, 50, 100, ... in that
\* order, goes on only after a response of 50 results, stops at the first
\* response with fewer than 50, and returns the identifiers of all responses
\* concatenated in request order (50 then 3 results: 53 identifiers after two
\* requests).
C9_DiscoveryPagination ==
    (IsProcessData /\ confluence_space_key # "") =>
        /\ \A k \in 1..Cardinality(ListRequests) :
                net[k] = [kind |-> "list", start |-> 50 * (k - 1), limit |-> 50]
        /\ \A k \in 1..(Len(responses) - 1) : Len(responses[k]) = 50
        /\ pc = "list" => \A k \in 1..Len(responses) : Len(responses[k]) = 50
        /\ ListingReturned =>
            /\ Len(responses) >= 1
            /\ Cardinality(ListRequests) = Len(responses)
            /\ Len(responses[Len(responses)]) < 50
            /\ page_ids = Flatten(responses)

\* C9 witness: 50 results, then 3: 53 identifiers after exactly two requests
C9_Witness ==
    /\ ListingReturned
    /\ Len(responses) = 2
    /\ Len(responses[1]) = 50 /\ Len(responses[2]) = 3
    /\ Cardinality(ListRequests) = 2
    /\ Len(page_ids) = 53
    /\ page_ids = space
    /\ net[2].start = 50

\* C10: the identifiers of the records a run emits are pairwise distinct.
C10_RecordIdsDistinct ==
    IsIngest =>
        \A i, j \in 1..Len(EmittedRecords) :
            i # j => EmittedRecords[i].id # EmittedRecords[j].id

----------------------------------------------------------------------------
(* Properties of chunk assembly : process_data.py 142-169 *)

\* process_data has left the chunk-id assignment (line 168), by its end or
\* by an exception of it
AssemblyRan ==
    /\ IsProcessData
    /\ pc \notin {"select", "list", "fetch", "split", "chunk_ids"}
    /\ df # <<>>
    /\ "text_chunk" \in DOMAIN df[1]

\* the chunk-id assignment raised
AssemblyRaised == AssemblyRan /\ "chunk_id" \notin DOMAIN df[1]

\* the pieces of the text the content source serves for a page
PiecesOf(pid) == SplitText(site[SiteClass(pid)].value, chunk_size, chunk_overlap)

ExpectedChunksOf(pid) ==
    LET pieces == PiecesOf(pid)
    IN [i \in 1..Len(pieces) |->
            [chunk_id |-> pid \o "__" \o ToString(i - 1),
             text_chunk |-> pieces[i],
             title |-> "Title " \o pid]]

\* the chunks of every page of the run, pages in input order, pieces in
\* increasing index
ExpectedChunks ==
    Flatten([k \in 1..Len(page_ids) |-> ExpectedChunksOf(page_ids[k])])

\* the chunk rows the frame holds (none when the id column was never assigned)
ChunkRows ==
    IF AssemblyRaised THEN <<>>
    ELSE [i \in 1..Len(df) |->
            [chunk_id |-> df[i].chunk_id, text_chunk |-> df[i].text_chunk,
             title |-> df[i].title]]

EmptyPages == {k \in 1..Len(page_ids) : PiecesOf(page_ids[k]) = <<>>}

\* C11: once chunk assembly has run, the frame holds, for every fetched page
\* whose text splits into n >= 1 pieces, exactly n chunks "{page_id}__0" ..
\* "{page_id}__{n-1}", chunk i with the i-th piece and the page's title, pages
\* in input order and indexes increasing within a page.
C11_ChunksPerPage ==
    AssemblyRan => ChunkRows = ExpectedChunks

\* C13: a fetched page with an empty body contributes nothing and does not
\* stop the run: assembly completes and the chunks are those of the other
\* pages.
C13_EmptyPageContributesNothing ==
    (AssemblyRan /\ EmptyPages # {}) =>
        /\ ~AssemblyRaised
        /\ ~(pc = "raised" /\ tries = 0)
        /\ \A i \in 1..Len(ChunkRows) : ChunkRows[i].text_chunk # ""
        /\ ChunkRows = ExpectedChunks

\* process_data has written its export file
Exported == IsProcessData /\ jsonl_name # ""

\* the (id, text) pairs of the exported records, in order
EmittedIdsAndTexts ==
    LET recs == EmittedRecords
    IN [i \in 1..Len(recs) |-> <<recs[i].id, recs[i].json_data.content>>]

\* what the pages, chunk_size and chunk_overlap alone determine
DeterminedIdsAndTexts ==
    LET chunks == ExpectedChunks
    IN [i \in 1..Len(chunks) |-> <<chunks[i].chunk_id, chunks[i].text_chunk>>]

\* C12: the sequence of chunk ids paired with their texts that a run emits is
\* a function of the pages (ids and texts), chunk_size and chunk_overlap only:
\* whatever the timestamp and the generated file name of the run, it is the
\* same sequence, so two runs over the same pages emit the same ids and texts.
C12_IdsIndependentOfRun ==
    Exported => EmittedIdsAndTexts = DeterminedIdsAndTexts

\* C12 witness: an export of three chunks from two pages, made under the
\* second file name and the second timestamp
C12_Witness ==
    /\ Exported
    /\ jsonl_name = "confluence_1b.jsonl"
    /\ Len(EmittedRecords) = 3
    /\ EmittedRecords[1].json_data.creation_timestamp = "2025-05-01T12:30:00"
    /\ EmittedIdsAndTexts = <<<<"101__0", "abcd">>, <<"101__1", "defg">>, <<"102__0", "ab">>>>

----------------------------------------------------------------------------
(* Properties of the embedding step : process_data.py 180-194 *)

LastAttempt == attempts[Len(attempts)]

\* the run is past the construction of the embedding client
PastConstruction ==
    \/ pc \in {"embed", "export", "manifest", "set_uri", "done"}
    \/ pc = "raised" /\ embed_calls >= 1

\* the exception of the constructor left process_data
ConstructionAborted(cls) ==
    pc = "raised" /\ error = cls /\ embed_calls = 0 /\ DOMAIN files = {}

\* C14: the construction of the embedding client is attempted at most 10
\* times; after an attempt that raised InvalidArgument, another attempt
\* follows while fewer than 10 were made; an attempt that succeeds lets the
\* run continue; when the 10th raises InvalidArgument that exception leaves
\* process_data; there is never an 11th attempt.
C14_ConstructionRetriedUpToTen ==
    IsProcessData =>
        /\ tries = Len(attempts)
        /\ tries <= 10
        /\ pc = "create_embedder" => tries < 10
        /\ tries >= 1 =>
            /\ LastAttempt.kind = "return" => PastConstruction
            /\ (LastAttempt = Raise("InvalidArgument") /\ tries < 10) =>
                    pc = "create_embedder" /\ error = "none"
            /\ (LastAttempt = Raise("InvalidArgument") /\ tries = 10) =>
                    ConstructionAborted("InvalidArgument")

\* C14 witness: ten attempts, every one raising InvalidArgument, and the run
\* aborted with that exception
C14_Witness ==
    /\ IsProcessData
    /\ tries = 10
    /\ \A k \in 1..10 : attempts[k] = Raise("InvalidArgument")
    /\ ConstructionAborted("InvalidArgument")

\* C15: an InvalidArgument raised by the embedding call is retried like the
\* construction: it leaves process_data only when 10 calls have raised it.
C15_EmbedCallRetried ==
    (IsProcessData /\ pc = "raised" /\ error = "InvalidArgument" /\ embed_calls >= 1) =>
        embed_calls = 10

\* C16: an exception of the constructor of any class other than
\* InvalidArgument ends the attempts: it leaves process_data at once, and
\* every attempt that was followed by another one had raised InvalidArgument.
C16_OtherClassesNotRetried ==
    IsProcessData =>
        /\ \A k \in 1..(Len(attempts) - 1) : attempts[k] = Raise("InvalidArgument")
        /\ (attempts # <<>> /\ LastAttempt.kind = "raise"
                /\ LastAttempt.cls # "InvalidArgument") =>
                    ConstructionAborted(LastAttempt.cls)

\* C16 witness: the first attempt raised PermissionDenied and the run is
\* aborted with it after that single attempt
C16_Witness ==
    /\ IsProcessData
    /\ attempts = <<Raise("PermissionDenied")>>
    /\ tries = 1
    /\ ConstructionAborted("PermissionDenied")

----------------------------------------------------------------------------
(* Properties of the export : process_data.py 190-231 *)

\* something of the export exists: a file, or the resolved output URI
ExportStarted ==
    \/ pc \in {"export", "manifest", "set_uri", "done"}
    \/ DOMAIN files # {}
    \/ output_uri # destination

\* embed_documents returned one vector for every chunk row and the column
\* was assigned
FullyEmbedded ==
    /\ embed_calls = 1
    /\ Len(df) >= 1
    /\ Len(embeddings) = Len(df)
    /\ \A i \in 1..Len(df) : "embedding" \in DOMAIN df[i]

\* C17: no partial embedding output is exported: the export file, the
\* manifest and the resolved URI exist only when the embedding call has
\* returned a vector for every chunk; a run that the constructor or the
\* embedding call aborted has written no file and left the URI as it was; the
\* manifest is never there without the export file, nor the resolved URI
\* without the manifest.
C17_NoPartialExport ==
    IsProcessData =>
        /\ ExportStarted => FullyEmbedded /\ LastAttempt.kind = "return"
        /\ (pc = "raised" /\ tries >= 1) =>
                DOMAIN files = {} /\ output_uri = destination /\ jsonl_name = ""
        /\ FileListPath \in DOMAIN files => JsonlPath(jsonl_name) \in DOMAIN files
        /\ output_uri # destination => FileListPath \in DOMAIN files

\* C17 witness: the embedding call returned vectors for two of three chunks;
\* the run is aborted and nothing was written
C17_Witness ==
    /\ IsProcessData
    /\ pc = "raised" /\ error = "ValueError"
    /\ embed_calls = 1
    /\ Len(df) = 3 /\ Len(embeddings) = 2
    /\ DOMAIN files = {} /\ output_uri = destination

\* C18: the export file holds one record per chunk row, in the order of the
\* rows; record i has the id and the text of row i and the vector at index i
\* of what embed_documents returned; and a run whose embed_documents did not
\* return exactly one vector per chunk text exports nothing.
C18_RecordsAlignedWithChunks ==
    IsProcessData =>
        /\ Exported =>
            LET recs == EmittedRecords
            IN /\ Len(recs) = Len(df)
               /\ Len(embeddings) = Len(df)
               /\ \A i \in 1..Len(recs) :
                    /\ recs[i].id = df[i].chunk_id
                    /\ recs[i].json_data.content = df[i].text_chunk
                    /\ recs[i].json_data.embedding = embeddings[i]
        /\ (embed_calls = 1 /\ Len(embeddings) # Len(df)) =>
                pc = "raised" /\ ~Exported

\* C18 witness: three chunks of two pages exported, the third vector unlike
\* the first two
C18_Witness ==
    /\ Exported
    /\ Len(EmittedRecords) = 3
    /\ EmittedRecords[1].id = "101__0" /\ EmittedRecords[3].id = "102__0"
    /\ EmittedRecords[1].json_data.embedding = Embed("abcd")
    /\ EmittedRecords[3].json_data.embedding = Embed("ab")
    /\ Embed("abcd") # Embed("ab")

----------------------------------------------------------------------------
(* Properties of the output URI : process_data.py 201-231 *)

\* s without its trailing "/" characters: the longest prefix of s that does
\* not end in "/"
WithoutTrailingSlashes(s) ==
    LET ends == {k \in 0..Len(s) : k = 0 \/ CharAt(s, k) # "/"}
        last == CHOOSE k \in ends : \A j \in ends : j <= k
    IN SubSeq(s, 1, last)

\* C19: after a successful export the output URI is, with d the destination
\* without its trailing slashes, d + "/" + file name when d ends in
\* output_files and d + "/output_files/" + file name otherwise; the file name
\* is that of the file the manifest names.
C19_OutputUriResolution ==
    (IsProcessData /\ pc = "done") =>
        LET d == WithoutTrailingSlashes(destination)
            n == Len(d)
        IN /\ jsonl_name \in {"confluence_" \o u \o ".jsonl" : u \in Uuids}
           /\ files[FileListPath] = OutputFilesPath \o "/" \o jsonl_name
           /\ JsonlPath(jsonl_name) \in DOMAIN files
           /\ output_uri =
                IF n >= 12 /\ SubSeq(d, n - 11, n) = "output_files"
                THEN d \o "/" \o jsonl_name
                ELSE d \o "/output_files/" \o jsonl_name

\* C19 witness: a destination ending in the output folder and two slashes
C19_Witness ==
    /\ IsProcessData /\ pc = "done"
    /\ destination = "gs://b/output_files//"
    /\ jsonl_name = "confluence_0a.jsonl"
    /\ output_uri = "gs://b/output_files/confluence_0a.jsonl"
    /\ files[FileListPath] = "/gcs/run/out/confluence_0a.jsonl"

----------------------------------------------------------------------------
(* Termination of page discovery : process_data.py 72-97 *)

\* the offsets of the listing requests issued so far, in order
RequestedOffsets ==
    LET ks == ListRequests
    IN [k \in 1..Cardinality(ks) |-> net[k].start]

\* C20: for a space of M pages served as results[start:start+50], discovery
\* issues at most M \div 50 + 1 requests and is still owed one while it
\* loops, never asks for an offset twice, and, unless a request failed,
\* returns after exactly M \div 50 + 1 requests with the M identifiers in the
\* order of the content source, each entry once; the last response is empty
\* when M is a positive multiple of 50, and M = 0 takes a single request.
C20_DiscoveryTerminatesComplete ==
    (IsProcessData /\ confluence_space_key # "") =>
        LET M == Len(space)
            offsets == RequestedOffsets
            n == Len(offsets)
        IN /\ n <= (M \div 50) + 1
           /\ pc = "list" => n <= M \div 50
           /\ \A j, k \in 1..n : j # k => offsets[j] # offsets[k]
           /\ ListingReturned =>
                /\ n = (M \div 50) + 1
                /\ Len(page_ids) = M
                /\ \A i \in 1..M : page_ids[i] = space[i]
                /\ (M > 0 /\ M % 50 = 0) => responses[n] = <<>>
                /\ M = 0 => n = 1

\* C20 witness: a space of 100 pages listed by three requests, the third
\* answered with no results
C20_Witness ==
    /\ ListingReturned
    /\ Len(space) = 100
    /\ RequestedOffsets = <<0, 50, 100>>
    /\ Len(responses) = 3 /\ Len(responses[3]) = 0
    /\ page_ids = space

----------------------------------------------------------------------------
(* Properties of page selection : process_data.py 121-140 *)

\* the entries of each identifier string of the model, trimmed, blanks
\* dropped, in the given order
EntriesOf(ids) ==
    CASE ids = "101" -> <<"101">>
      [] ids = "101,102" -> <<"101", "102">>
      [] ids = " 101 , ,102" -> <<"101", "102">>
      [] ids = "102,101,102" -> <<"102", "101", "102">>
      [] OTHER -> <<>>

\* the identifiers of the pages requested so far, in request order
RequestedPages ==
    LET ks == PageRequests
        first == Len(net) - Cardinality(ks)
    IN [k \in 1..Cardinality(ks) |-> net[first + k].id]

\* C21: a run selects its pages in one mode.  With a space key the page set
\* is what discovery listed, whatever the identifier string says; with the
\* identifier string alone it is the string's comma-separated entries,
\* trimmed, blanks dropped, in order, and no listing request is made; with
\* neither, no request at all is made.  Pages are requested only from a
\* non-empty identifier list, in its order.
C21_OneSelectionMode ==
    (IsProcessData /\ pc # "select") =>
        /\ confluence_space_key # "" =>
            /\ pc # "list" => ListRequests # {}
            /\ page_ids = Flatten(responses)
            /\ ListingReturned => page_ids = space
        /\ (confluence_space_key = "" /\ confluence_page_ids # "") =>
            /\ ListRequests = {}
            /\ page_ids = EntriesOf(confluence_page_ids)
        /\ (confluence_space_key = "" /\ confluence_page_ids = "") =>
            net = <<>> /\ page_ids = <<>>
        /\ PageRequests # {} => page_ids # <<>>
        /\ LET req == RequestedPages
           IN /\ Len(req) <= Len(page_ids)
              /\ \A k \in 1..Len(req) : req[k] = page_ids[k]

\* C21 witness: a space key and an identifier string are both given; the
\* three pages of the space are the page set and the third, which the string
\* does not name, has been requested
C21_Witness ==
    /\ IsProcessData
    /\ confluence_space_key = "BE" /\ confluence_page_ids = "101,102"
    /\ ListingReturned
    /\ page_ids = <<"101", "102", "103">>
    /\ RequestedPages = <<"101", "102", "103">>

====
